---- MODULE Spec2Model ----
(***************************************************************************)
(* A model of the gokoo cuckoo filter (GokooTable): construction by New,   *)
(* and the handlers Insert, Lookup and Remove over the flat occupancy      *)
(* array and fingerprint buffer, with the index functions they rest on.    *)
(*                                                                         *)
(* Go's int is taken as 64 bits wide.  The model checker's integers are    *)
(* 32 bits wide, so a uint32 is kept as a pair <<hi, lo>> of its 16-bit    *)
(* halves and the uint32 arithmetic of the fingerprint hash is done on the *)
(* halves.                                                                 *)
(***************************************************************************)
EXTENDS Integers, Sequences, FiniteSets, TLC

VARIABLES
    cfg,        \* the options given to New: nBuckets, nSlots, nBytes, nTries
    status,     \* "new" before New ran; then "ok", "err" (New returned an error) or "panic"
    iBytes,     \* gt.iBytes, set by New
    occupied,   \* gt.occupied: [0 .. nBuckets*nSlots-1 -> BOOLEAN]
    buckets,    \* gt.buckets: [0 .. nBuckets*nSlots*nBytes-1 -> 0..255]
    last,       \* the last call made on the table, what it returned and what it met
    insOnly,    \* every mutating call so far was an Insert of an item not inserted before
    clean,      \* ... and each returned true, the fingerprints pairwise different
    inserted,   \* while insOnly: the items Insert was called with (else {})
    accepted,   \* while insOnly: the items whose Insert returned true (else {})
    opsLeft,    \* mutating calls still allowed in this run
    calls,      \* the Insert calls of the threads, when calls are followed step by step
    guarded,    \* the threads make their calls under one external mutex
    netInserts  \* Inserts that returned true minus Removes that returned true

vars == <<cfg, status, iBytes, occupied, buckets, last, insOnly, clean, inserted, accepted,
          opsLeft, calls, guarded, netInserts>>

(***************************************************************************)
(* Bounds of the model.                                                    *)
(***************************************************************************)
MaxOps == 4         \* mutating calls (Insert, Remove) per run
MaxProbeOps == 1    \* mutating calls per run when exploring construction

\* the fingerprint bytes items are built from
FpBytes == {0, 1, 4}

(***************************************************************************)
(* uint32 arithmetic on halves <<hi, lo>>, each in 0 .. 65535.             *)
(***************************************************************************)
Half == 2^16

RECURSIVE Xor(_, _)
\* bitwise exclusive or of two naturals
Xor(a, b) ==
    IF a = 0 THEN b
    ELSE IF b = 0 THEN a
    ELSE (((a % 2) + (b % 2)) % 2) + 2 * Xor(a \div 2, b \div 2)

Xor32(x, y) == <<Xor(x[1], y[1]), Xor(x[2], y[2])>>

Add32(x, y) ==
    LET lo == x[2] + y[2]
        hi == x[1] + y[1] + (lo \div Half)
    IN  <<hi % Half, lo % Half>>

\* the low 16 bits of a * b, for a, b in 0 .. 65535
MulLo16(a, b) ==
    LET a0 == a % 256
        a1 == a \div 256
        b0 == b % 256
        b1 == b \div 256
    IN  (a0 * b0 + ((a0 * b1 + a1 * b0) % 256) * 256) % Half

\* the full 32-bit product a * b, for a, b in 0 .. 65535
Mul16(a, b) ==
    LET a0 == a % 256
        a1 == a \div 256
        b0 == b % 256
        b1 == b \div 256
        t  == a0 * b0 + (a0 * b1 + a1 * b0) * 256
    IN  <<(t \div Half) + a1 * b1, t % Half>>

\* x * y mod 2^32
Mul32(x, y) ==
    LET p == Mul16(x[2], y[2])
    IN  <<(p[1] + MulLo16(x[1], y[2]) + MulLo16(x[2], y[1])) % Half, p[2]>>

RECURSIVE Rotl32(_, _)
\* x rotated left by r bits, 0 <= r < 32
Rotl32(x, r) ==
    IF r = 0 THEN x
    ELSE IF r >= 16 THEN Rotl32(<<x[2], x[1]>>, r - 16)
    ELSE <<((x[1] * 2^r) % Half) + (x[2] \div 2^(16 - r)),
           ((x[2] * 2^r) % Half) + (x[1] \div 2^(16 - r))>>

\* x shifted right by s bits, 0 < s <= 16
Shr32(x, s) ==
    IF s = 16 THEN <<0, x[1]>>
    ELSE <<x[1] \div 2^s, (x[2] \div 2^s) + (x[1] % (2^s)) * 2^(16 - s)>>

(***************************************************************************)
(* xxhash.Checksum32: XXH32 with seed 0, for inputs shorter than 16 bytes  *)
(* (a fingerprint is at most 8 bytes long).                                *)
(***************************************************************************)
PRIME32_1 == <<40503, 31153>>   \* 2654435761
PRIME32_2 == <<34283, 51831>>   \* 2246822519
PRIME32_3 == <<49842, 44605>>   \* 3266489917
PRIME32_4 == <<10196, 60207>>   \* 668265263
PRIME32_5 == <<5718, 26545>>    \* 374761393

RECURSIVE XXHTail(_, _, _)
\* the hash state h after consuming f from (1-based) position p on
XXHTail(h, f, p) ==
    IF p + 3 <= Len(f)
    THEN LET w == <<f[p + 3] * 256 + f[p + 2], f[p + 1] * 256 + f[p]>>
         IN  XXHTail(Mul32(Rotl32(Add32(h, Mul32(w, PRIME32_3)), 17), PRIME32_4), f, p + 4)
    ELSE IF p <= Len(f)
    THEN XXHTail(Mul32(Rotl32(Add32(h, Mul32(<<0, f[p]>>, PRIME32_5)), 11), PRIME32_1), f, p + 1)
    ELSE h

\* h ^= h >> s
XorShift(h, s) == Xor32(h, Shr32(h, s))

XXHAvalanche(h) ==
    XorShift(Mul32(XorShift(Mul32(XorShift(h, 15), PRIME32_2), 13), PRIME32_3), 16)

XXH32(f) == XXHAvalanche(XXHTail(Add32(PRIME32_5, <<0, Len(f)>>), f, 1))

\* the checksums of the fingerprints the items can have, computed once
FpSeqs == {<<>>} \cup {<<b>> : b \in FpBytes} \cup {<<b, 0>> : b \in FpBytes}
XXHTable == [f \in FpSeqs |-> XXH32(f)]

Checksum32(f) == IF f \in FpSeqs THEN XXHTable[f] ELSE XXH32(f)

(***************************************************************************)
(* The hash capability and the items.  The table is built with DummyHash,  *)
(* whose digest is the first 8 bytes of the item, zero padded.  An item is *)
(* a byte sequence; the items of a run carry a chosen first byte and a     *)
(* chosen byte at the position where the fingerprint starts.               *)
(***************************************************************************)
HashLen == 8

\* n zero bytes, n <= 9
Zeros(n) == SubSeq(<<0, 0, 0, 0, 0, 0, 0, 0, 0>>, 1, n)

\* output := make([]byte, 8); copy(output, input)
DummyHash(input) == SubSeq(input \o Zeros(HashLen), 1, HashLen)

\* ceil(sqrt(n)) for n >= 0
CeilSqrt(n) == CHOOSE k \in 0..n : k * k >= n /\ (k = 0 \/ (k - 1) * (k - 1) < n)

MkItem(ib, a, b) ==
    IF ib = 0 THEN <<b>> ELSE (<<a>> \o Zeros(ib - 1)) \o <<b>>

\* one item for each primary bucket and each fingerprint byte
Items ==
    {MkItem(iBytes, a, b) : a \in 0..(IF cfg.nBuckets > 0 THEN cfg.nBuckets - 1 ELSE 0),
                            b \in FpBytes}

(***************************************************************************)
(* Index and fingerprint extraction.                                       *)
(***************************************************************************)
\* the slice of the earlier revision, hash[iBytes : nBytes]
fingerPrintToNBytes(hash) == SubSeq(hash, iBytes + 1, cfg.nBytes)

\* hash[iBytes : iBytes+nBytes]
fingerPrint(hash) == SubSeq(hash, iBytes + 1, iBytes + cfg.nBytes)

RECURSIVE LEMod(_, _, _)
\* the little-endian unsigned number held in bytes[k .. Len(bytes)], modulo m
LEMod(bytes, k, m) ==
    IF k > Len(bytes) THEN 0 ELSE (LEMod(bytes, k + 1, m) * 256 + bytes[k]) % m

\* copy(slice, hash[0:iBytes]) into 4 zero bytes; int(Uint32(slice)) % nBuckets
primaryIndex(hash) ==
    LET slice == SubSeq(SubSeq(hash, 1, IF iBytes < 4 THEN iBytes ELSE 4) \o Zeros(4), 1, 4)
    IN  LEMod(slice, 1, cfg.nBuckets)

\* (i1 ^ h) % n for an int i1 >= 0 and a uint32 h = <<hi, lo>>
XorMod(i1, h, n) ==
    ((Xor(i1 \div Half, h[1]) % n) * (Half % n) + Xor(i1 % Half, h[2])) % n

\* the secondary index reduced modulo nBuckets + 1
secondaryIndexModPlusOne(i1, f) == XorMod(i1, Checksum32(f), cfg.nBuckets + 1)

\* (i1 ^ int(xxhash.Checksum32(f))) % nBuckets
secondaryIndex(i1, f) == XorMod(i1, Checksum32(f), cfg.nBuckets)

(***************************************************************************)
(* The bucket store.  occ and buc are the occupancy array and the          *)
(* fingerprint buffer, both indexed from 0.                                *)
(***************************************************************************)
\* the indexes of the earlier revision: index := i + n
accessAdditive(i, n) ==
    LET index == i + n
    IN  [index |-> index, begin |-> index * cfg.nBytes, end |-> index * cfg.nBytes + cfg.nBytes]

\* access(i, n): the occupancy index and the first byte of slot n of bucket i
access(i, n) ==
    LET index == i * cfg.nSlots + n
    IN  [index |-> index, begin |-> index * cfg.nBytes, end |-> index * cfg.nBytes + cfg.nBytes]

RECURSIVE BytesFrom(_, _, _)
\* the k bytes buc[b], ..., buc[b + k - 1] as a sequence
BytesFrom(buc, b, k) ==
    IF k <= 0 THEN <<>> ELSE Append(BytesFrom(buc, b, k - 1), buc[b + k - 1])

\* gt.buckets[b:e]
slotBytes(buc, i, n) == BytesFrom(buc, access(i, n).begin, cfg.nBytes)

RECURSIVE CopyFrom(_, _, _, _, _)
\* buc after f[k], f[k+1], ... are copied to buc[b + k - 1], ..., as far as both reach
CopyFrom(buc, b, e, f, k) ==
    IF k > Len(f) \/ b + k - 1 >= e THEN buc
    ELSE CopyFrom([buc EXCEPT ![b + k - 1] = f[k]], b, e, f, k + 1)

\* copy(gt.buckets[b:e], f)
putBytes(buc, i, n, f) == CopyFrom(buc, access(i, n).begin, access(i, n).end, f, 1)

Slots == 0..(cfg.nSlots - 1)

\* add without the test of the occupancy flag: the first slot of bucket i takes f
addAnySlot(occ, buc, i, f) ==
    IF cfg.nSlots <= 0 THEN [ok |-> FALSE, occ |-> occ, buc |-> buc]
    ELSE [ok  |-> TRUE,
          occ |-> [occ EXCEPT ![access(i, 0).index] = TRUE],
          buc |-> putBytes(buc, i, 0, f)]

\* add scanning the slots from the last one down: the last free slot of bucket i takes f
addLastFree(occ, buc, i, f) ==
    LET free == {n \in Slots : ~occ[access(i, n).index]}
    IN  IF free = {} THEN [ok |-> FALSE, occ |-> occ, buc |-> buc]
        ELSE LET n == CHOOSE m \in free : \A k \in free : m >= k
             IN  [ok  |-> TRUE,
                  occ |-> [occ EXCEPT ![access(i, n).index] = TRUE],
                  buc |-> putBytes(buc, i, n, f)]

\* add: the first free slot of bucket i takes f
add(occ, buc, i, f) ==
    LET free == {n \in Slots : ~occ[access(i, n).index]}
    IN  IF free = {} THEN [ok |-> FALSE, occ |-> occ, buc |-> buc]
        ELSE LET n == CHOOSE m \in free : \A k \in free : m <= k
             IN  [ok  |-> TRUE,
                  occ |-> [occ EXCEPT ![access(i, n).index] = TRUE],
                  buc |-> putBytes(buc, i, n, f)]

\* has without the test of the occupancy flag: some slot of bucket i holds f
hasAnySlot(occ, buc, i, f) ==
    \E n \in Slots : slotBytes(buc, i, n) = f

\* has: some occupied slot of bucket i holds f
has(occ, buc, i, f) ==
    \E n \in Slots : occ[access(i, n).index] /\ slotBytes(buc, i, n) = f

\* del without the test of the occupancy flag: the first slot that holds f is marked free
delAnySlot(occ, buc, i, f) ==
    LET hit == {n \in Slots : slotBytes(buc, i, n) = f}
    IN  IF hit = {} THEN [ok |-> FALSE, occ |-> occ]
        ELSE LET n == CHOOSE m \in hit : \A k \in hit : m <= k
             IN  [ok |-> TRUE, occ |-> [occ EXCEPT ![access(i, n).index] = FALSE]]

\* del: the first occupied slot of bucket i that holds f is marked free
del(occ, buc, i, f) ==
    LET hit == {n \in Slots : occ[access(i, n).index] /\ slotBytes(buc, i, n) = f}
    IN  IF hit = {} THEN [ok |-> FALSE, occ |-> occ]
        ELSE LET n == CHOOSE m \in hit : \A k \in hit : m <= k
             IN  [ok |-> TRUE, occ |-> [occ EXCEPT ![access(i, n).index] = FALSE]]

\* evict without copy(fOld, gt.buckets[b:e]): the bytes returned are zero
evictNoCopyOut(buc, i, f, n) ==
    [fOld |-> Zeros(Len(f)), buc |-> putBytes(buc, i, n, f)]

\* evict returning the slot itself instead of a copy: after the write it reads as f
evictAliased(buc, i, f, n) ==
    [fOld |-> f, buc |-> putBytes(buc, i, n, f)]

\* evict: slot n of bucket i (n is rand.Int() % nSlots) takes f; its bytes are returned
evict(buc, i, f, n) ==
    [fOld |-> slotBytes(buc, i, n), buc |-> putBytes(buc, i, n, f)]

(***************************************************************************)
(* The handlers, as functions of the table (occ, buc), the item and the    *)
(* random draws.  A handler that the Go runtime would stop with a panic    *)
(* (a slice with low > high, an integer division by zero) reports it in    *)
(* the field panic and leaves the table as it was.                         *)
(***************************************************************************)
\* fingerPrint slices hash[iBytes : iBytes+nBytes]: a panic when nBytes < 0
FpPanics == cfg.nBytes < 0

\* primaryIndex divides by nBuckets
IdxPanics == cfg.nBuckets = 0

Outcome(res, panic, occ, buc, nEvict, hand) ==
    [res |-> res, panic |-> panic, occ |-> occ, buc |-> buc, nEvict |-> nEvict, hand |-> hand]

RECURSIVE EvictLoop(_, _, _, _, _, _)

\* the end of an iteration: the evicted fingerprint e.fOld went to bucket j, or not
EvictAdd(a, occ, e, j, n, slots) ==
    IF a.ok THEN Outcome(TRUE, FALSE, a.occ, a.buc, n + 1, <<>>)
    ELSE EvictLoop(occ, e.buc, j, e.fOld, n + 1, slots)

\* i1 = gt.secondaryIndex(i1, f); gt.add(i1, f)
EvictMove(occ, e, j, n, slots) == EvictAdd(add(occ, e.buc, j, e.fOld), occ, e, j, n, slots)

\* the loop of Insert from iteration n on: f is in hand, i1 the bucket to evict from
EvictLoop(occ, buc, i1, f, n, slots) ==
    IF n >= cfg.nTries THEN Outcome(FALSE, FALSE, occ, buc, n, f)
    ELSE IF cfg.nSlots = 0 THEN Outcome(FALSE, TRUE, occ, buc, n, f)
    ELSE EvictMove(occ, evict(buc, i1, f, slots[n]),
                   secondaryIndex(i1, evict(buc, i1, f, slots[n]).fOld), n, slots)

\* Insert after both adds failed: the coin picks the bucket to start from
InsertEvict(occ, buc, f, i1, i2, coin, slots) ==
    EvictLoop(occ, buc, IF coin = 1 THEN i2 ELSE i1, f, 0, slots)

\* Insert from the second add on
InsertSecondary(a2, occ, buc, f, i1, i2, coin, slots) ==
    IF a2.ok THEN Outcome(TRUE, FALSE, a2.occ, a2.buc, 0, <<>>)
    ELSE InsertEvict(occ, buc, f, i1, i2, coin, slots)

\* Insert from the first add on
InsertPrimary(a1, occ, buc, f, i1, i2, coin, slots) ==
    IF a1.ok THEN Outcome(TRUE, FALSE, a1.occ, a1.buc, 0, <<>>)
    ELSE InsertSecondary(add(occ, buc, i2, f), occ, buc, f, i1, i2, coin, slots)

\* Insert of an item with fingerprint f and primary index i1
InsertAt(occ, buc, f, i1, coin, slots) ==
    InsertPrimary(add(occ, buc, i1, f), occ, buc, f, i1, secondaryIndex(i1, f), coin, slots)

\* Insert(item); coin is rand.Int() % 2, slots[n] is rand.Int() % nSlots of iteration n
InsertOp(occ, buc, item, coin, slots) ==
    IF FpPanics \/ IdxPanics THEN Outcome(FALSE, TRUE, occ, buc, 0, <<>>)
    ELSE InsertAt(occ, buc, fingerPrint(DummyHash(item)), primaryIndex(DummyHash(item)),
                  coin, slots)

\* Lookup of an item with fingerprint f and primary index i1
LookupAt(occ, buc, f, i1) ==
    has(occ, buc, i1, f) \/ has(occ, buc, secondaryIndex(i1, f), f)

\* Lookup(item)
LookupOp(occ, buc, item) ==
    IF FpPanics \/ IdxPanics THEN [res |-> FALSE, panic |-> TRUE]
    ELSE [res   |-> LookupAt(occ, buc, fingerPrint(DummyHash(item)),
                             primaryIndex(DummyHash(item))),
          panic |-> FALSE]

\* Remove from the first del on
RemovePrimary(d1, occ, buc, f, i1) ==
    IF d1.ok THEN d1 ELSE del(occ, buc, secondaryIndex(i1, f), f)

\* Remove calling del on both buckets, whatever the first del returned
RemoveAtBoth(occ, buc, f, i1) ==
    [ok  |-> del(occ, buc, i1, f).ok \/ del(occ, buc, secondaryIndex(i1, f), f).ok,
     occ |-> del(del(occ, buc, i1, f).occ, buc, secondaryIndex(i1, f), f).occ]

\* Remove of an item with fingerprint f and primary index i1
RemoveAt(occ, buc, f, i1) == RemovePrimary(del(occ, buc, i1, f), occ, buc, f, i1)

\* Remove taking its primary index from the fingerprint slice, not from the digest
RemoveOpByFingerprint(occ, buc, item) ==
    IF FpPanics \/ IdxPanics THEN [ok |-> FALSE, panic |-> TRUE, occ |-> occ]
    ELSE [panic |-> FALSE] @@ RemoveAt(occ, buc, fingerPrint(DummyHash(item)),
                                       primaryIndex(SubSeq(DummyHash(item), iBytes + 1,
                                                           HashLen)))

\* Remove(item): ok is what it returns
RemoveOp(occ, buc, item) ==
    IF FpPanics \/ IdxPanics THEN [ok |-> FALSE, panic |-> TRUE, occ |-> occ]
    ELSE [panic |-> FALSE] @@ RemoveAt(occ, buc, fingerPrint(DummyHash(item)),
                                       primaryIndex(DummyHash(item)))

\* the fingerprint of an item (of a table whose handlers do not panic)
FpOf(item) == fingerPrint(DummyHash(item))

(***************************************************************************)
(* Construction.                                                           *)
(***************************************************************************)
\* the table configurations explored by Spec: sizes New accepts
Configs ==
    { [nBuckets |-> 3, nSlots |-> 1, nBytes |-> 1, nTries |-> 2],
      [nBuckets |-> 2, nSlots |-> 2, nBytes |-> 2, nTries |-> 1] }

NoCall == [op |-> "none", item |-> <<>>, res |-> FALSE, nEvict |-> 0, hand |-> <<>>,
           changed |-> FALSE, wasFull |-> FALSE, wasHeld |-> FALSE, wasClean |-> FALSE,
           wasNew |-> FALSE, wasAccepted |-> FALSE]

InitWith(configs, ops) ==
    /\ cfg \in configs
    /\ status = "new"
    /\ iBytes = 0
    /\ occupied = <<>>
    /\ buckets = <<>>
    /\ last = NoCall
    /\ insOnly = TRUE
    /\ clean = TRUE
    /\ inserted = {}
    /\ accepted = {}
    /\ opsLeft = ops
    /\ calls = <<>>
    /\ guarded = TRUE
    /\ netInserts = 0

Init == InitWith(Configs, MaxOps)

\* New with the length test off by one (<= for <)
NewResultOffByOne ==
    LET ib == CeilSqrt(cfg.nBuckets)
    IN  IF HashLen <= ib + cfg.nBytes THEN "err"
        ELSE IF cfg.nBuckets * cfg.nSlots < 0 THEN "panic"
        ELSE IF cfg.nBuckets * cfg.nSlots * cfg.nBytes < 0 THEN "panic"
        ELSE "ok"

\* what New does with the options cfg: "err", "panic" (make with a negative length) or "ok"
NewResult ==
    LET ib == CeilSqrt(cfg.nBuckets)
    IN  IF HashLen < ib + cfg.nBytes THEN "err"
        ELSE IF cfg.nBuckets * cfg.nSlots < 0 THEN "panic"
        ELSE IF cfg.nBuckets * cfg.nSlots * cfg.nBytes < 0 THEN "panic"
        ELSE "ok"

New ==
    /\ status = "new"
    /\ status' = NewResult
    /\ iBytes' = IF NewResult = "ok" THEN CeilSqrt(cfg.nBuckets) ELSE iBytes
    /\ occupied' = IF NewResult = "ok"
                   THEN [x \in 0..(cfg.nBuckets * cfg.nSlots - 1) |-> FALSE]
                   ELSE occupied
    /\ buckets' = IF NewResult = "ok"
                  THEN [x \in 0..(cfg.nBuckets * cfg.nSlots * cfg.nBytes - 1) |-> 0]
                  ELSE buckets
    /\ UNCHANGED <<cfg, last, insOnly, clean, inserted, accepted, opsLeft, calls, guarded,
                   netInserts>>

(***************************************************************************)
(* The calls on a table.  Each call leaves in last what it was, what it    *)
(* returned, whether it changed the occupancy array or the fingerprint     *)
(* buffer (changed), and what it met: whether every slot was occupied      *)
(* (wasFull), whether an occupied slot of one of the item's two buckets    *)
(* held its fingerprint (wasHeld), whether the run so far was clean        *)
(* (wasClean), and, while the run is insOnly, whether the item was never   *)
(* inserted (wasNew) or had been accepted (wasAccepted).                   *)
(***************************************************************************)
AllOccupied(occ) == \A x \in DOMAIN occ : occ[x]

\* the slots (bucket, slot number) that are occupied and hold the bytes f
SlotsHolding(f) ==
    {<<i, n>> \in (0..(cfg.nBuckets - 1)) \X Slots :
        /\ occupied[i * cfg.nSlots + n]
        /\ \A k \in 1..cfg.nBytes : buckets[(i * cfg.nSlots + n) * cfg.nBytes + k - 1] = f[k]}

\* an occupied slot of one of the two buckets of the item holds its fingerprint
Held(item) ==
    /\ ~(FpPanics \/ IdxPanics)
    /\ \E s \in SlotsHolding(FpOf(item)) :
          \/ s[1] = primaryIndex(DummyHash(item))
          \/ s[1] = secondaryIndex(primaryIndex(DummyHash(item)), FpOf(item))

\* the draws of one Insert
Coins == {0, 1}
SlotDraws ==
    [0..(cfg.nTries - 1) -> IF cfg.nSlots > 0 THEN Slots ELSE {0}]

\* an earlier inserted item has the fingerprint of item
FpSeen(item) == \E it \in inserted : FpOf(it) = FpOf(item)

Called(op, item, res, nEvict, hand, occ2, buc2) ==
    [op |-> op, item |-> item, res |-> res, nEvict |-> nEvict, hand |-> hand,
     changed |-> (occ2 # occupied \/ buc2 # buckets),
     wasFull |-> AllOccupied(occupied), wasHeld |-> Held(item), wasClean |-> clean,
     wasNew |-> (insOnly /\ item \notin inserted),
     wasAccepted |-> (insOnly /\ item \in accepted)]

InsertDone(r, only, item) ==
    /\ status' = IF r.panic THEN "panic" ELSE "ok"
    /\ occupied' = r.occ
    /\ buckets' = r.buc
    /\ last' = Called("Insert", item, r.res, r.nEvict, r.hand, r.occ, r.buc)
    /\ netInserts' = IF r.res THEN netInserts + 1 ELSE netInserts
    /\ insOnly' = only
    /\ clean' = (only /\ clean /\ r.res /\ ~FpSeen(item))
    /\ inserted' = IF only THEN inserted \cup {item} ELSE {}
    /\ accepted' = IF ~only THEN {}
                   ELSE IF r.res THEN accepted \cup {item} ELSE accepted

Insert(item, coin, slots) ==
    /\ status = "ok"
    /\ opsLeft > 0
    /\ InsertDone(InsertOp(occupied, buckets, item, coin, slots),
                  insOnly /\ ~(FpPanics \/ IdxPanics) /\ item \notin inserted, item)
    /\ opsLeft' = opsLeft - 1
    /\ UNCHANGED <<cfg, iBytes, calls, guarded>>

LookupDone(r, item) ==
    /\ status' = IF r.panic THEN "panic" ELSE "ok"
    /\ last' = Called("Lookup", item, r.res, 0, <<>>, occupied, buckets)

Lookup(item) ==
    /\ status = "ok"
    /\ LookupDone(LookupOp(occupied, buckets, item), item)
    /\ UNCHANGED <<cfg, iBytes, occupied, buckets, insOnly, clean, inserted, accepted, opsLeft,
                   calls, guarded, netInserts>>

RemoveDone(r, item) ==
    /\ status' = IF r.panic THEN "panic" ELSE "ok"
    /\ occupied' = r.occ
    /\ last' = Called("Remove", item, r.ok, 0, <<>>, r.occ, buckets)
    /\ netInserts' = IF r.ok THEN netInserts - 1 ELSE netInserts

Remove(item) ==
    /\ status = "ok"
    /\ opsLeft > 0
    /\ RemoveDone(RemoveOp(occupied, buckets, item), item)
    /\ insOnly' = FALSE
    /\ clean' = FALSE
    /\ inserted' = {}
    /\ accepted' = {}
    /\ opsLeft' = opsLeft - 1
    /\ UNCHANGED <<cfg, iBytes, buckets, calls, guarded>>

Next ==
    \/ New
    \/ \E item \in Items, coin \in Coins, slots \in SlotDraws : Insert(item, coin, slots)
    \/ \E item \in Items : Lookup(item)
    \/ \E item \in Items : Remove(item)

Spec == Init /\ [][Next]_vars

(***************************************************************************)
(* Construction explored on its own: the options include sizes that are    *)
(* zero or negative, and one call is then made on the table New returns.   *)
(* (A negative nBuckets is left out: New converts the NaN of its square    *)
(* root to an int, which Go leaves to the implementation.)                 *)
(***************************************************************************)
NewConfigs ==
    [nBuckets : {0, 1, 2, 5}, nSlots : {-1, 0, 1, 2}, nBytes : {-1, 0, 1, 5, 6, 7},
     nTries : {0, 1}]

InitNew == InitWith(NewConfigs, MaxProbeOps)

SpecNew == InitNew /\ [][Next]_vars

(***************************************************************************)
(* The secondary index on its own: it is applied to a bucket index i and a *)
(* fingerprint f, and applied again to the result.                         *)
(***************************************************************************)
MaxFpByte == 7      \* the fingerprints tried are <<b>> and <<b, 0>>, b in 0 .. MaxFpByte

IndexBuckets == {1, 2, 3, 4, 8, 39}

IndexConfigs == [nBuckets : IndexBuckets, nSlots : {1}, nBytes : {1, 2}, nTries : {0}]

InitIndex ==
    /\ cfg \in IndexConfigs
    /\ status = "index"
    /\ iBytes = CeilSqrt(cfg.nBuckets)
    /\ occupied = <<>>
    /\ buckets = <<>>
    /\ last = NoCall
    /\ insOnly = TRUE
    /\ clean = TRUE
    /\ inserted = {}
    /\ accepted = {}
    /\ opsLeft = 0
    /\ calls = <<>>
    /\ guarded = TRUE
    /\ netInserts = 0

IndexFps == {IF cfg.nBytes = 1 THEN <<b>> ELSE <<b, 0>> : b \in 0..MaxFpByte}

Indexed(i, f, alt) ==
    last' = [op |-> "secondaryIndex", i |-> i, f |-> f, alt |-> alt,
             back |-> secondaryIndex(alt, f)]

SecondaryIndex(i, f) ==
    /\ status = "index"
    /\ last.op = "none"
    /\ Indexed(i, f, secondaryIndex(i, f))
    /\ UNCHANGED <<cfg, status, iBytes, occupied, buckets, insOnly, clean, inserted,
                   accepted, opsLeft, calls, guarded, netInserts>>

NextIndex == \E i \in 0..(cfg.nBuckets - 1), f \in IndexFps : SecondaryIndex(i, f)

SpecIndex == InitIndex /\ [][NextIndex]_vars

(***************************************************************************)
(* One item inserted again and again: New builds a table, Insert is called *)
(* with the same item as long as every Insert returned true, and then      *)
(* Remove and Lookup are called with that item.  Here inserted holds the   *)
(* item of the run, clean says that every Insert so far returned true and  *)
(* insOnly that Remove was not called yet.                                 *)
(***************************************************************************)
MaxDupOps == 6   \* calls of Insert and Remove on one table

DupConfigs ==
    { [nBuckets |-> 3, nSlots |-> 1, nBytes |-> 1, nTries |-> 2],
      [nBuckets |-> 2, nSlots |-> 2, nBytes |-> 1, nTries |-> 1] }

InitDup == InitWith(DupConfigs, MaxDupOps)

DupInsertDone(r, item) ==
    /\ status' = IF r.panic THEN "panic" ELSE "ok"
    /\ occupied' = r.occ
    /\ buckets' = r.buc
    /\ last' = Called("Insert", item, r.res, r.nEvict, r.hand, r.occ, r.buc)
    /\ netInserts' = IF r.res THEN netInserts + 1 ELSE netInserts
    /\ clean' = r.res
    /\ inserted' = {item}
    /\ accepted' = IF r.res THEN {item} ELSE accepted

\* Insert(item), the item of every earlier Insert
DupInsert(item, coin, slots) ==
    /\ status = "ok"
    /\ opsLeft > 0
    /\ insOnly /\ clean
    /\ inserted \subseteq {item}
    /\ DupInsertDone(InsertOp(occupied, buckets, item, coin, slots), item)
    /\ opsLeft' = opsLeft - 1
    /\ UNCHANGED <<cfg, iBytes, insOnly, calls, guarded>>

\* Remove(item), the item inserted
DupRemove(item) ==
    /\ status = "ok"
    /\ opsLeft > 0
    /\ clean
    /\ item \in inserted
    /\ RemoveDone(RemoveOp(occupied, buckets, item), item)
    /\ insOnly' = FALSE
    /\ opsLeft' = opsLeft - 1
    /\ UNCHANGED <<cfg, iBytes, buckets, clean, inserted, accepted, calls, guarded>>

\* Lookup(item), the item inserted
DupLookup(item) ==
    /\ status = "ok"
    /\ clean
    /\ item \in inserted
    /\ LookupDone(LookupOp(occupied, buckets, item), item)
    /\ UNCHANGED <<cfg, iBytes, occupied, buckets, insOnly, clean, inserted, accepted, opsLeft,
                   calls, guarded, netInserts>>

NextDup ==
    \/ New
    \/ \E item \in Items, coin \in Coins, slots \in SlotDraws : DupInsert(item, coin, slots)
    \/ \E item \in Items : DupRemove(item)
    \/ \E item \in Items : DupLookup(item)

SpecDup == InitDup /\ [][NextDup]_vars

(***************************************************************************)
(* The bucket store on its own: New builds a table, then add and del are   *)
(* called on its buckets.  Each call leaves in last the bucket, the        *)
(* fingerprint, the result and the slots of the bucket it found free.      *)
(***************************************************************************)
MaxStoreOps == 5   \* calls of add and del on one table

StoreConfigs ==
    { [nBuckets |-> 2, nSlots |-> 3, nBytes |-> 1, nTries |-> 0],
      [nBuckets |-> 2, nSlots |-> 2, nBytes |-> 2, nTries |-> 0] }

\* the fingerprints stored: nBytes bytes each
StoreFps == {SubSeq(<<a, 3 - a>>, 1, cfg.nBytes) : a \in {1, 2}}

InitStore == InitWith(StoreConfigs, MaxStoreOps)

FreeSlots(occ, i) == {n \in Slots : ~occ[access(i, n).index]}

StoreCall(op, i, f, r) ==
    /\ occupied' = r.occ
    /\ last' = [op |-> op, i |-> i, f |-> f, res |-> r.ok, free |-> FreeSlots(occupied, i)]

\* gt.add(i, f)
AddCall(i, f) ==
    /\ status = "ok"
    /\ opsLeft > 0
    /\ opsLeft' = opsLeft - 1
    /\ StoreCall("add", i, f, add(occupied, buckets, i, f))
    /\ buckets' = add(occupied, buckets, i, f).buc
    /\ UNCHANGED <<cfg, status, iBytes, insOnly, clean, inserted, accepted, calls, guarded,
                   netInserts>>

\* gt.del(i, f)
DelCall(i, f) ==
    /\ status = "ok"
    /\ opsLeft > 0
    /\ opsLeft' = opsLeft - 1
    /\ StoreCall("del", i, f, del(occupied, buckets, i, f))
    /\ UNCHANGED <<cfg, status, iBytes, buckets, insOnly, clean, inserted, accepted,
                   calls, guarded, netInserts>>

NextStore ==
    \/ New
    \/ \E i \in 0..(cfg.nBuckets - 1), f \in StoreFps : AddCall(i, f)
    \/ \E i \in 0..(cfg.nBuckets - 1), f \in StoreFps : DelCall(i, f)

SpecStore == InitStore /\ [][NextStore]_vars

(***************************************************************************)
(* The primary index and the fingerprint on their own: New builds a table  *)
(* and both are taken from the digest of one item.                         *)
(***************************************************************************)
MaxDigestPos == 7   \* the items tried have their first non-zero byte at 1 .. MaxDigestPos

DigestBytes == {0, 1, 255}

\* sizes New accepts with the 8-byte hash; 17, 25 and 36 buckets have iBytes 5, 5 and 6
DigestConfigs ==
    [nBuckets : {1, 3, 16, 17, 25, 36}, nSlots : {1}, nBytes : {0, 1, 2}, nTries : {0}]

DigestItems ==
    {(Zeros(k - 1) \o <<v>>) \o <<w>> : k \in 1..MaxDigestPos, v \in DigestBytes,
                                        w \in DigestBytes}

InitDigest == InitWith(DigestConfigs, 0)

Digested(item, hash) ==
    last' = [op |-> "digest", item |-> item, hash |-> hash,
             index |-> primaryIndex(hash), f |-> fingerPrint(hash)]

\* hash := gt.hash(item.Bytes()); f := gt.fingerPrint(hash); i1 := gt.primaryIndex(hash)
Digest(item) ==
    /\ status = "ok"
    /\ last.op = "none"
    /\ Digested(item, DummyHash(item))
    /\ UNCHANGED <<cfg, status, iBytes, occupied, buckets, insOnly, clean, inserted,
                   accepted, opsLeft, calls, guarded, netInserts>>

NextDigest ==
    \/ New
    \/ \E item \in DigestItems : Digest(item)

SpecDigest == InitDigest /\ [][NextDigest]_vars

(***************************************************************************)
(* Insert followed step by step, for two threads that call it on the same  *)
(* table.  A step is one iteration of add's slot loop (the read of the     *)
(* occupancy flag), add's write of the flag, add's copy of the bytes, the  *)
(* coin of Insert, or one iteration of Insert's loop up to the next add    *)
(* (the test of n, evict, secondaryIndex).  When guarded, a call begins    *)
(* only while no other call is under way; Remove is then taken in one      *)
(* step, and is left out when the threads are not guarded.                 *)
(***************************************************************************)
MaxStepOps == 4     \* calls per run when the threads are guarded
MaxRaceOps == 2     \* calls per run when they are not

Threads == {1, 2}

StepConfigs ==
    { [nBuckets |-> 3, nSlots |-> 1, nBytes |-> 1, nTries |-> 2],
      [nBuckets |-> 2, nSlots |-> 2, nBytes |-> 1, nTries |-> 1],
      [nBuckets |-> 2, nSlots |-> 1, nBytes |-> 1, nTries |-> 0] }

\* the table of the threads that are not guarded
RaceConfigs == { [nBuckets |-> 2, nSlots |-> 2, nBytes |-> 1, nTries |-> 1] }

\* a thread that is in no call; net counts its Inserts that returned true
\* less its Removes that returned true
Idle(net) ==
    [pc |-> "idle", item |-> <<>>, fnew |-> <<>>, f |-> <<>>, i1 |-> 0, i2 |-> 0, cur |-> 0,
     n |-> 0, phase |-> "none", tries |-> 0, adds |-> 0, steps |-> 0, res |-> FALSE,
     occ0 |-> <<>>, buc0 |-> <<>>, net |-> net]

InitSteps ==
    /\ guarded \in BOOLEAN
    /\ cfg \in (IF guarded THEN StepConfigs ELSE RaceConfigs)
    /\ status = "new"
    /\ iBytes = 0
    /\ occupied = <<>>
    /\ buckets = <<>>
    /\ last = NoCall
    /\ insOnly = TRUE
    /\ clean = TRUE
    /\ inserted = {}
    /\ accepted = {}
    /\ opsLeft = IF guarded THEN MaxStepOps ELSE MaxRaceOps
    /\ calls = [p \in Threads |-> Idle(0)]
    /\ netInserts = 0

Quiet(c) == c.pc \in {"idle", "done"}

\* thread p may begin a call
MayBegin(p) ==
    /\ status = "ok"
    /\ opsLeft > 0
    /\ Quiet(calls[p])
    /\ guarded => \A q \in Threads : Quiet(calls[q])

\* the records of the threads when p begins a call: a finished call is forgotten
Forget(c) == IF c.pc = "done" THEN Idle(c.net) ELSE c

\* hash, f, i1 of Insert, up to the first add
Begun(item, f, i1, net) ==
    [pc |-> "check", item |-> item, fnew |-> f, f |-> f, i1 |-> i1,
     i2 |-> secondaryIndex(i1, f), cur |-> i1, n |-> 0, phase |-> "primary",
     tries |-> 0, adds |-> 1, steps |-> 0, res |-> FALSE,
     occ0 |-> occupied, buc0 |-> buckets, net |-> net]

InsertBegin(p, item) ==
    /\ MayBegin(p)
    /\ calls' = [q \in Threads |->
                   IF q = p THEN Begun(item, FpOf(item), primaryIndex(DummyHash(item)),
                                       calls[p].net)
                   ELSE Forget(calls[q])]
    /\ opsLeft' = opsLeft - 1
    /\ UNCHANGED <<cfg, status, iBytes, occupied, buckets, last, insOnly, clean, inserted,
                   accepted, guarded, netInserts>>

\* Insert without its second add: after the first add failed it goes to the coin
AfterAddFailedNoSecond(c) ==
    IF c.phase = "primary" THEN [c EXCEPT !.pc = "coin", !.phase = "secondary"]
    ELSE IF c.phase = "secondary" THEN [c EXCEPT !.pc = "coin"]
    ELSE [c EXCEPT !.pc = "evict"]

\* add returned false: Insert goes on to the second add, to the coin, or round its loop
AfterAddFailed(c) ==
    IF c.phase = "primary"
    THEN [c EXCEPT !.phase = "secondary", !.cur = c.i2, !.n = 0, !.adds = c.adds + 1]
    ELSE IF c.phase = "secondary" THEN [c EXCEPT !.pc = "coin"]
    ELSE [c EXCEPT !.pc = "evict"]

\* add's loop without the test of the occupancy flag: the first slot is taken
CheckSlotAny(c) ==
    IF c.n >= cfg.nSlots THEN AfterAddFailed(c) ELSE [c EXCEPT !.pc = "mark"]

\* one iteration of add's loop over the slots of bucket c.cur
CheckSlot(c) ==
    IF c.n >= cfg.nSlots THEN AfterAddFailed(c)
    ELSE IF occupied[access(c.cur, c.n).index] THEN [c EXCEPT !.n = c.n + 1]
    ELSE [c EXCEPT !.pc = "mark"]

Counted(c) == [c EXCEPT !.steps = c.steps + 1]

StepCheck(p) ==
    /\ calls[p].pc = "check"
    /\ calls' = [calls EXCEPT ![p] = Counted(CheckSlot(calls[p]))]
    /\ UNCHANGED <<occupied, buckets>>

\* gt.occupied[o] = true
StepMark(p) ==
    /\ calls[p].pc = "mark"
    /\ occupied' = [occupied EXCEPT ![access(calls[p].cur, calls[p].n).index] = TRUE]
    /\ calls' = [calls EXCEPT ![p] = Counted([calls[p] EXCEPT !.pc = "copy"])]
    /\ UNCHANGED buckets

\* copy(gt.buckets[b:e], f); return true
StepCopy(p) ==
    /\ calls[p].pc = "copy"
    /\ buckets' = putBytes(buckets, calls[p].cur, calls[p].n, calls[p].f)
    /\ calls' = [calls EXCEPT ![p] = Counted([calls[p] EXCEPT !.pc = "done", !.res = TRUE,
                                                                !.net = calls[p].net + 1])]
    /\ UNCHANGED occupied

\* if rand.Int()%2 == 1 { i1 = i2 }
StepCoin(p, coin) ==
    /\ calls[p].pc = "coin"
    /\ calls' = [calls EXCEPT ![p] =
                   Counted([calls[p] EXCEPT !.pc = "evict", !.phase = "loop",
                                            !.cur = IF coin = 1 THEN calls[p].i2
                                                    ELSE calls[p].i1])]
    /\ UNCHANGED <<occupied, buckets>>

\* the loop taking the secondary index with the fingerprint put in, not the one evicted
EvictedByIncoming(c, e) ==
    [c EXCEPT !.pc = "check", !.f = e.fOld, !.cur = secondaryIndex(c.cur, c.f),
              !.n = 0, !.tries = c.tries + 1, !.adds = c.adds + 1]

\* the thread after f = gt.evict(i1, f); i1 = gt.secondaryIndex(i1, f), at its next add
Evicted(c, e) ==
    [c EXCEPT !.pc = "check", !.f = e.fOld, !.cur = secondaryIndex(c.cur, e.fOld),
              !.n = 0, !.tries = c.tries + 1, !.adds = c.adds + 1]

\* Insert's loop with n <= gt.nTries for n < gt.nTries
StepEvictOneMore(p, n) ==
    /\ calls[p].pc = "evict"
    /\ IF calls[p].tries > cfg.nTries
       THEN /\ calls' = [calls EXCEPT ![p] = Counted([calls[p] EXCEPT !.pc = "done"])]
            /\ UNCHANGED buckets
       ELSE /\ buckets' = evict(buckets, calls[p].cur, calls[p].f, n).buc
            /\ calls' = [calls EXCEPT ![p] =
                           Counted(Evicted(calls[p],
                                           evict(buckets, calls[p].cur, calls[p].f, n)))]
    /\ UNCHANGED occupied

\* one iteration of Insert's loop up to its add, or the return false after the loop
StepEvict(p, n) ==
    /\ calls[p].pc = "evict"
    /\ IF calls[p].tries >= cfg.nTries
       THEN /\ calls' = [calls EXCEPT ![p] = Counted([calls[p] EXCEPT !.pc = "done"])]
            /\ UNCHANGED buckets
       ELSE /\ buckets' = evict(buckets, calls[p].cur, calls[p].f, n).buc
            /\ calls' = [calls EXCEPT ![p] =
                           Counted(Evicted(calls[p],
                                           evict(buckets, calls[p].cur, calls[p].f, n)))]
    /\ UNCHANGED occupied

Step(p) ==
    /\ status = "ok"
    /\ \/ StepCheck(p)
       \/ StepMark(p)
       \/ StepCopy(p)
       \/ \E coin \in Coins : StepCoin(p, coin)
       \/ \E n \in Slots : StepEvict(p, n)
    /\ UNCHANGED <<cfg, status, iBytes, last, insOnly, clean, inserted, accepted, opsLeft,
                   guarded, netInserts>>

\* Remove(item) by thread p, in one step
Removed(c, r) == IF r.ok THEN Idle(c.net - 1) ELSE Idle(c.net)

RemoveCall(p, item) ==
    /\ guarded
    /\ MayBegin(p)
    /\ occupied' = RemoveOp(occupied, buckets, item).occ
    /\ calls' = [q \in Threads |->
                   IF q = p THEN Removed(calls[p], RemoveOp(occupied, buckets, item))
                   ELSE Forget(calls[q])]
    /\ opsLeft' = opsLeft - 1
    /\ UNCHANGED <<cfg, status, iBytes, buckets, last, insOnly, clean, inserted, accepted,
                   guarded, netInserts>>

NextSteps ==
    \/ New
    \/ \E p \in Threads, item \in Items : InsertBegin(p, item)
    \/ \E p \in Threads : Step(p)
    \/ \E p \in Threads, item \in Items : RemoveCall(p, item)

SpecSteps == InitSteps /\ [][NextSteps]_vars

(***************************************************************************)
(* Properties of Insert, Lookup and Remove (specification Spec).           *)
(***************************************************************************)
\* what Lookup(item) returns on the table as it is now
LookupNow(item) == LookupOp(occupied, buckets, item).res

\* what Remove(item) returns on the table as it is now
RemoveNow(item) == RemoveOp(occupied, buckets, item).ok

\* the step is a call of Insert
InsertStep == last'.op = "Insert" /\ opsLeft' = opsLeft - 1

\* the number of occupied slots of the table (occ, buc) that hold the bytes g
Copies(occ, buc, g) ==
    Cardinality({x \in DOMAIN occ : occ[x] /\ BytesFrom(buc, x * cfg.nBytes, cfg.nBytes) = g})

\* the fingerprints held by occupied slots of the table (occ, buc)
Stored(occ, buc) ==
    {BytesFrom(buc, x * cfg.nBytes, cfg.nBytes) : x \in {y \in DOMAIN occ : occ[y]}}

\* the table after the step holds what it held before, plus one copy of f, minus one of g
PlusMinus(f, g) ==
    \A h \in Stored(occupied, buckets) \cup Stored(occupied', buckets') \cup {f, g} :
        Copies(occupied', buckets', h) + (IF h = g THEN 1 ELSE 0)
            = Copies(occupied, buckets, h) + (IF h = f THEN 1 ELSE 0)

\* C1: when Insert(item) has just returned true, Lookup(item) on the table
\* as Insert left it returns true.
C1_NoImmediateFalseNegative ==
    (status = "ok" /\ last.op = "Insert" /\ last.res) => LookupNow(last.item)

\* C2: while only Insert calls have been made, every item whose Insert
\* returned true is found by Lookup, whatever later Insert calls (successful
\* or failed) did to the table.
C2_AcceptedStayFindable ==
    (status = "ok" /\ insOnly) => \A it \in accepted : LookupNow(it)

\* C4: when Remove(item) is called on an accepted item after a run of
\* successful Insert calls of items with pairwise different fingerprints,
\* it returns true, and afterwards Lookup(item) and a second Remove(item)
\* return false.
C4_DeleteEffective ==
    (status = "ok" /\ last.op = "Remove" /\ last.wasClean /\ last.wasAccepted)
        => last.res /\ ~LookupNow(last.item) /\ ~RemoveNow(last.item)

\* C5 as stated: Remove of an item that was never inserted returns false
\* and changes neither the occupancy flags nor the buffer.
C5_UnknownRemoveIsNoOp ==
    (status = "ok" /\ last.op = "Remove" /\ last.wasNew) => ~last.res /\ ~last.changed

\* C5: Remove of an item returns false and changes neither the occupancy
\* flags nor the buffer whenever no occupied slot of the item's two
\* candidate buckets holds a fingerprint equal to the item's.
C5_UnheldRemoveIsNoOp ==
    (status = "ok" /\ last.op = "Remove" /\ ~last.wasHeld) => ~last.res /\ ~last.changed

C5_Witness ==
    /\ status = "ok" /\ last.op = "Remove" /\ ~last.wasHeld
    /\ \E x \in DOMAIN occupied : occupied[x]

\* C6 as stated: an Insert that returns false with nTries >= 1 has made
\* exactly nTries evictions, the fingerprint it ends with in hand is stored
\* in no slot, and the table holds what it held before plus the new
\* fingerprint minus the one in hand.
C6_FailedInsertDropsOne ==
    [][(InsertStep /\ status' = "ok" /\ ~last'.res /\ cfg.nTries >= 1)
          => /\ last'.nEvict = cfg.nTries
             /\ Copies(occupied', buckets', last'.hand) = 0
             /\ PlusMinus(FpOf(last'.item), last'.hand)]_vars

\* C6: an Insert that returns false with nTries >= 1 has made exactly
\* nTries evictions, and the table holds what it held before plus one copy
\* of the new fingerprint minus one copy of the fingerprint it ends with in
\* hand (other copies of that fingerprint may remain stored).
C6_FailedInsertDropsOneCopy ==
    [][(InsertStep /\ status' = "ok" /\ ~last'.res /\ cfg.nTries >= 1)
          => /\ last'.nEvict = cfg.nTries
             /\ PlusMinus(FpOf(last'.item), last'.hand)]_vars

C6_Witness ==
    /\ status = "ok" /\ last.op = "Insert" /\ ~last.res /\ cfg.nTries >= 1
    /\ last.nEvict = cfg.nTries
    /\ last.hand # FpOf(last.item)
    /\ last.changed

\* C7: an Insert called when every slot of the table is occupied returns
\* false after exactly nTries evictions, and every slot is still occupied.
C7_Saturation ==
    (status = "ok" /\ last.op = "Insert" /\ last.wasFull)
        => ~last.res /\ last.nEvict = cfg.nTries /\ AllOccupied(occupied)

C7_Witness ==
    /\ status = "ok" /\ last.op = "Insert" /\ last.wasFull
    /\ ~last.res /\ last.nEvict = cfg.nTries /\ last.changed

\* C10: Lookup(item) returns true exactly when an occupied slot of the
\* item's primary or secondary bucket holds bytes equal to the item's
\* fingerprint, and it changes neither the occupancy flags nor the buffer.
C10_LookupPureQuery ==
    (status = "ok" /\ last.op = "Lookup") => (last.res <=> last.wasHeld) /\ ~last.changed

C10_Witness ==
    /\ status = "ok" /\ last.op = "Lookup" /\ last.res
    /\ \E it \in Items : Held(it) /\ FpOf(it) # FpOf(last.item)

(***************************************************************************)
(* Property of the secondary index (specification SpecIndex).              *)
(***************************************************************************)
\* C3: for every bucket index i of the table and every fingerprint f, the
\* secondary index of the secondary index of i is i again, whatever the
\* bucket count.
C3_IndexSymmetry == (last.op = "secondaryIndex") => last.back = last.i

(***************************************************************************)
(* Properties of New (specification SpecNew).                              *)
(***************************************************************************)
\* the sizes are all positive
Positive == cfg.nBuckets > 0 /\ cfg.nSlots > 0 /\ cfg.nBytes > 0

\* no size is negative
NonNegative == cfg.nBuckets >= 0 /\ cfg.nSlots >= 0 /\ cfg.nBytes >= 0

\* C8: New returns an error, and no table and no allocated array, exactly
\* when the hash length is smaller than ceil(sqrt(nBuckets)) + nBytes;
\* otherwise, for sizes that are not negative, what New returns is a table
\* and no error, with nBuckets * nSlots free slots over
\* nBuckets * nSlots * nBytes bytes.
C8_ConfigurationValidation ==
    (status # "new")
        => IF HashLen < CeilSqrt(cfg.nBuckets) + cfg.nBytes
           THEN status = "err" /\ occupied = <<>> /\ buckets = <<>>
           ELSE /\ status # "err"
                /\ (NonNegative /\ last.op = "none")
                     => /\ status = "ok"
                        /\ iBytes = CeilSqrt(cfg.nBuckets)
                        /\ DOMAIN occupied = 0..(cfg.nBuckets * cfg.nSlots - 1)
                        /\ DOMAIN buckets = 0..(cfg.nBuckets * cfg.nSlots * cfg.nBytes - 1)
                        /\ \A x \in DOMAIN occupied : ~occupied[x]

C8_Witness ==
    /\ status = "err" /\ Positive
    /\ cfg.nBuckets = 5 /\ HashLen + 1 = CeilSqrt(cfg.nBuckets) + cfg.nBytes

\* C9: New rejects a bucket count, a slot count or a fingerprint size that
\* is zero or negative.
C9_DegenerateRejected ==
    (status # "new" /\ ~Positive) => status = "err"

(***************************************************************************)
(* Properties of Insert followed step by step (specification SpecSteps).   *)
(***************************************************************************)
\* no call is under way
AllQuiet == \A p \in Threads : Quiet(calls[p])

\* the number of occupied slots
NumOccupied == Cardinality({x \in DOMAIN occupied : occupied[x]})

\* the Inserts that returned true, less the Removes that returned true
NetAccepted == calls[1].net + calls[2].net

\* every slot of bucket i is occupied in occ
BucketFull(occ, i) == \A n \in Slots : occ[access(i, n).index]

\* C11: when every call runs under the external mutex, then, whenever no
\* call is under way, the table holds one fingerprint for every Insert that
\* returned true and was not undone by a Remove that returned true: no
\* insertion is lost.  (Without the mutex two interleaved Inserts both
\* return true and leave one fingerprint: the state C11_Witness.)
C11_NoLostInsertion ==
    (status = "ok" /\ guarded /\ AllQuiet) => NumOccupied = NetAccepted

C11_Witness ==
    /\ status = "ok" /\ ~guarded
    /\ \A p \in Threads : calls[p].pc = "done" /\ calls[p].res /\ calls[p].tries = 0
    /\ calls[1].occ0 = calls[2].occ0 /\ \A x \in DOMAIN calls[1].occ0 : ~calls[1].occ0[x]
    /\ NetAccepted = 2
    /\ NumOccupied = 1

\* the step is an eviction by thread p
EvictStep(p) == calls[p].pc = "evict" /\ calls'[p].tries = calls[p].tries + 1

\* the phases of Insert follow each other in this order
PhaseOrder ==
    { <<"none", "primary">>, <<"primary", "secondary">>, <<"secondary", "loop">>,
      <<"primary", "none">>, <<"secondary", "none">>, <<"loop", "none">>,
      <<"primary", "primary">>, <<"secondary", "primary">>, <<"loop", "primary">> }

\* the bytes of some slot of bucket i are g
InBucket(buc, i, g) == \E n \in Slots : slotBytes(buc, i, n) = g

\* what C12 asks of a step of thread p, c the thread before and d after it
OrderedStep(p, c, d) ==
    /\ c.phase # d.phase => <<c.phase, d.phase>> \in PhaseOrder
    /\ c.phase # d.phase /\ d.phase = "primary"
         => Quiet(c) /\ d.pc = "check" /\ d.cur = d.i1 /\ d.adds = 1 /\ d.tries = 0
    /\ c.phase = "primary" /\ d.phase = "secondary"
         => /\ BucketFull(occupied, c.i1)
            /\ d.cur = secondaryIndex(c.i1, c.fnew) /\ d.adds = 2 /\ d.tries = 0
    /\ c.phase = "secondary" /\ d.phase = "loop"
         => /\ BucketFull(occupied, c.i1) /\ BucketFull(occupied, c.i2)
            /\ d.cur \in {c.i1, c.i2} /\ d.tries = 0
    /\ EvictStep(p)
         => /\ c.phase = "loop" /\ d.phase = "loop"
            /\ BucketFull(occupied, c.i1) /\ BucketFull(occupied, c.i2)
            /\ InBucket(buckets, c.cur, d.f)
            /\ InBucket(buckets', c.cur, c.f)
            /\ d.cur = secondaryIndex(c.cur, d.f)
    /\ c.phase = "loop" /\ d.phase = "loop" /\ d.cur # c.cur => EvictStep(p)
    /\ d.tries # c.tries /\ d.phase = c.phase => EvictStep(p)

\* C12: under the mutex, every step of Insert keeps the order primary add,
\* secondary add, loop: the secondary add is on secondaryIndex(i1, f) and
\* only after the primary bucket was found full, the loop is entered only
\* with both buckets full and starts from i1 or i2, an eviction happens
\* only in the loop and with both buckets of the item full, and after the
\* start the bucket changes only by an eviction, to the secondary index of
\* the bucket evicted from and the fingerprint evicted.
C12_InsertOrder ==
    [][guarded => \A p \in Threads : OrderedStep(p, calls[p], calls'[p])]_vars

C12_Witness ==
    /\ status = "ok" /\ guarded
    /\ \E p \in Threads :
         /\ calls[p].pc = "done" /\ calls[p].res /\ calls[p].tries = 2
         /\ calls[p].cur \notin {calls[p].i1, calls[p].i2}

\* the steps one Insert can take: nTries + 2 adds of at most nSlots + 1
\* iterations and two writes, the coin, and nTries + 1 tests of the loop
StepBound == (cfg.nTries + 2) * (cfg.nSlots + 1) + cfg.nTries + 4

\* C13: an Insert makes at most nTries evictions and at most nTries + 2
\* adds; it ends: while it is under way it can take a step, and it takes at
\* most StepBound steps; and under the mutex, with nTries = 0 and both
\* buckets of the item full when it began, it returns false with the table
\* as it was.
C13_InsertBounded ==
    (status = "ok" /\ calls # <<>>)
        => \A p \in Threads :
             /\ calls[p].tries <= cfg.nTries
             /\ calls[p].adds <= cfg.nTries + 2
             /\ calls[p].steps <= StepBound
             /\ ~Quiet(calls[p]) => ENABLED Step(p)
             /\ (/\ guarded /\ calls[p].pc = "done" /\ cfg.nTries = 0
                 /\ BucketFull(calls[p].occ0, calls[p].i1)
                 /\ BucketFull(calls[p].occ0, calls[p].i2))
                  => /\ ~calls[p].res /\ calls[p].tries = 0 /\ calls[p].adds = 2
                     /\ occupied = calls[p].occ0 /\ buckets = calls[p].buc0

C13_Witness ==
    /\ status = "ok" /\ guarded /\ cfg.nTries = 0
    /\ \E p \in Threads :
         /\ calls[p].pc = "done" /\ ~calls[p].res /\ calls[p].adds = 2
         /\ BucketFull(calls[p].occ0, calls[p].i1)
         /\ BucketFull(calls[p].occ0, calls[p].i2)

\* C19: under the mutex, whenever Insert is about to call evict(i, f),
\* every slot of bucket i is occupied: the bytes evict returns are those of
\* an occupied slot, also after Removes have left free slots with old bytes.
C19_EvictOnlyFullBuckets ==
    (status = "ok" /\ guarded)
        => \A p \in Threads :
             (calls[p].pc = "evict" /\ calls[p].tries < cfg.nTries)
                 => BucketFull(occupied, calls[p].cur)

C19_Witness ==
    /\ status = "ok" /\ guarded
    /\ \E p \in Threads :
         /\ calls[p].pc = "evict" /\ calls[p].tries >= 1 /\ calls[p].tries < cfg.nTries
    /\ \E x \in DOMAIN occupied : ~occupied[x] /\ buckets[x * cfg.nBytes] # 0

\* the table (occ, buc) with g in hand holds what (occ0, buc0) held, and f
Balanced(occ, buc, g, occ0, buc0, f) ==
    \A h \in Stored(occ, buc) \cup Stored(occ0, buc0) \cup {f, g} :
        Copies(occ, buc, h) + (IF h = g THEN 1 ELSE 0)
            = Copies(occ0, buc0, h) + (IF h = f THEN 1 ELSE 0)

\* the table (occ, buc) holds what (occ0, buc0) held, and f
Gained(occ, buc, occ0, buc0, f) ==
    \A h \in Stored(occ, buc) \cup Stored(occ0, buc0) \cup {f} :
        Copies(occ, buc, h) = Copies(occ0, buc0, h) + (IF h = f THEN 1 ELSE 0)

\* C20: under the mutex, at every iteration of Insert's loop the stored
\* fingerprints together with the one in hand are those stored when the
\* call began plus the new item's, and when Insert has returned true the
\* stored fingerprints are those stored when it began plus one copy of the
\* new item's.
C20_SuccessLosesNothing ==
    (status = "ok" /\ guarded)
        => \A p \in Threads :
             /\ calls[p].pc = "evict"
                  => Balanced(occupied, buckets, calls[p].f,
                              calls[p].occ0, calls[p].buc0, calls[p].fnew)
             /\ (calls[p].pc = "done" /\ calls[p].res)
                  => Gained(occupied, buckets, calls[p].occ0, calls[p].buc0, calls[p].fnew)

C20_Witness ==
    /\ status = "ok" /\ guarded
    /\ \E p \in Threads :
         /\ calls[p].pc = "done" /\ calls[p].res /\ calls[p].tries = 2
         /\ calls[p].f # calls[p].fnew
         /\ Cardinality(Stored(occupied, buckets)) = 3

(***************************************************************************)
(* Further properties of Insert, Lookup and Remove (specification Spec).   *)
(***************************************************************************)
\* the one slot in which the table (occ2, buc2) differs from (occ, buc) holds f,
\* is occupied, and lies in bucket i
PlacedIn(occ, buc, occ2, buc2, i, f) ==
    \E n \in Slots :
        /\ ~occ[access(i, n).index]
        /\ occ2 = [occ EXCEPT ![access(i, n).index] = TRUE]
        /\ slotBytes(buc2, i, n) = f

\* C14: Lookup and Remove probe the buckets Insert fills: an Insert without
\* eviction puts the fingerprint into the bucket given by the first iBytes
\* bytes of the item's digest or into the secondary index of that bucket,
\* and Lookup and Remove return true exactly when an occupied slot of one
\* of these two buckets holds the fingerprint.
C14_SameCandidateBuckets ==
    [][(status' = "ok" /\ last' # last)
         => /\ (InsertStep /\ last'.res /\ last'.nEvict = 0)
                 => \/ PlacedIn(occupied, buckets, occupied', buckets',
                                LEMod(SubSeq(DummyHash(last'.item), 1, iBytes), 1,
                                      cfg.nBuckets),
                                FpOf(last'.item))
                    \/ PlacedIn(occupied, buckets, occupied', buckets',
                                secondaryIndex(LEMod(SubSeq(DummyHash(last'.item), 1, iBytes),
                                                     1, cfg.nBuckets),
                                               FpOf(last'.item)),
                                FpOf(last'.item))
            /\ last'.op \in {"Lookup", "Remove"} => (last'.res <=> Held(last'.item))
            /\ (last'.op = "Remove" /\ last'.res)
                 => \E s \in SlotsHolding(FpOf(last'.item)) :
                      /\ occupied' = [occupied EXCEPT ![access(s[1], s[2]).index] = FALSE]
                      /\ \/ s[1] = primaryIndex(DummyHash(last'.item))
                         \/ s[1] = secondaryIndex(primaryIndex(DummyHash(last'.item)),
                                                  FpOf(last'.item))]_vars

C14_Witness ==
    /\ status = "ok" /\ last.op = "Remove" /\ last.res /\ last.wasAccepted
    /\ primaryIndex(DummyHash(last.item))
         # primaryIndex(SubSeq(DummyHash(last.item), iBytes + 1, HashLen))
    /\ \E x \in DOMAIN occupied : occupied[x]

(***************************************************************************)
(* Properties of the primary index and the fingerprint (specification      *)
(* SpecDigest).                                                            *)
(***************************************************************************)
\* C15: the primary index is the first iBytes bytes of the digest, read as
\* one unsigned little-endian number, modulo nBuckets, and lies in
\* 0 .. nBuckets - 1, also when iBytes exceeds 4.
C15_PrimaryIndexAllIndexBytes ==
    (status = "ok" /\ last.op = "digest")
        => /\ last.index = LEMod(SubSeq(last.hash, 1, iBytes), 1, cfg.nBuckets)
           /\ last.index \in 0..(cfg.nBuckets - 1)

\* C16: the fingerprint has nBytes bytes, which are the bytes of the digest
\* at the nBytes positions after the first iBytes, all of them positions of
\* the digest.
C16_FingerprintSlice ==
    (status = "ok" /\ last.op = "digest")
        => /\ Len(last.f) = cfg.nBytes
           /\ \A k \in 1..cfg.nBytes :
                /\ iBytes + k \in (DOMAIN last.hash) \ (1..iBytes)
                /\ last.f[k] = last.hash[iBytes + k]

C16_Witness ==
    /\ status = "ok" /\ last.op = "digest"
    /\ cfg.nBuckets = 36 /\ cfg.nBytes = 2
    /\ last.f = <<1, 255>>

(***************************************************************************)
(* Property of the slot layout (specification SpecNew).                    *)
(***************************************************************************)
\* the slots of the table: (bucket, slot number)
AllSlots == (0..(cfg.nBuckets - 1)) \X Slots

\* the bytes of slot s
ByteRange(s) == access(s[1], s[2]).begin .. (access(s[1], s[2]).end - 1)

\* C17: a table built by New with positive sizes has nBuckets * nSlots
\* occupancy flags, all false before the first call, and
\* nBuckets * nSlots * nBytes bytes; slot (i, n) has occupancy index
\* i * nSlots + n and the nBytes bytes from index * nBytes on, inside the
\* arrays, and different slots have different indexes and disjoint bytes.
C17_SlotLayout ==
    (status = "ok" /\ Positive)
        => /\ DOMAIN occupied = 0..(cfg.nBuckets * cfg.nSlots - 1)
           /\ DOMAIN buckets = 0..(cfg.nBuckets * cfg.nSlots * cfg.nBytes - 1)
           /\ last.op = "none" => \A x \in DOMAIN occupied : ~occupied[x]
           /\ \A s \in AllSlots :
                /\ access(s[1], s[2]).index = s[1] * cfg.nSlots + s[2]
                /\ access(s[1], s[2]).index \in DOMAIN occupied
                /\ ByteRange(s) \subseteq DOMAIN buckets
                /\ Cardinality(ByteRange(s)) = cfg.nBytes
                /\ access(s[1], s[2]).begin = access(s[1], s[2]).index * cfg.nBytes
           /\ \A s \in AllSlots, t \in AllSlots :
                s # t => /\ access(s[1], s[2]).index # access(t[1], t[2]).index
                         /\ ByteRange(s) \cap ByteRange(t) = {}

C17_Witness ==
    /\ status = "ok" /\ last.op = "none"
    /\ cfg.nBuckets = 5 /\ cfg.nSlots = 2 /\ cfg.nBytes = 5
    /\ DOMAIN buckets = 0..49

(***************************************************************************)
(* Property of add (specification SpecStore).                              *)
(***************************************************************************)
\* the step is a call of add
AddStep == opsLeft' < opsLeft /\ last'.op = "add"

\* the lowest slot of a non-empty set of slots
LowestSlot(free) == CHOOSE m \in free : \A k \in free : m <= k

\* add(i, f) returned res: with free the free slots of bucket i before the call
AddContract(i, f, res, free) ==
    /\ res <=> free # {}
    /\ DOMAIN occupied' = DOMAIN occupied
    /\ DOMAIN buckets' = DOMAIN buckets
    /\ free = {} => occupied' = occupied /\ buckets' = buckets
    /\ free # {} =>
         /\ \A x \in DOMAIN occupied :
              occupied'[x] = (occupied[x] \/ x = access(i, LowestSlot(free)).index)
         /\ \A k \in 1..cfg.nBytes :
              buckets'[access(i, LowestSlot(free)).begin + k - 1] = f[k]
         /\ \A x \in DOMAIN buckets :
              x \notin ByteRange(<<i, LowestSlot(free)>>) => buckets'[x] = buckets[x]

\* C18: add(i, f) returns true when bucket i has a free slot, and then the
\* lowest free slot of bucket i is marked occupied and holds f while every
\* other flag and every other byte stays as it was; it returns false exactly
\* when all slots of bucket i are occupied, and then nothing changes.
C18_AddLowestFreeSlot ==
    [][AddStep => AddContract(last'.i, last'.f, last'.res,
                              {n \in Slots : ~occupied[last'.i * cfg.nSlots + n]})]_vars

\* add took slot 0, freed by del, while slot 1 was occupied and slot 2 free
C18_Witness ==
    /\ status = "ok" /\ last.op = "add" /\ last.res
    /\ cfg.nSlots = 3 /\ last.i = 1 /\ last.free = {0, 2}
    /\ occupied[3] /\ occupied[4] /\ ~occupied[5]
    /\ buckets[3] = last.f[1] /\ buckets[4] # buckets[3]

(***************************************************************************)
(* Property of the occupancy count (specification Spec).                   *)
(***************************************************************************)
OccupiedSlots == {x \in DOMAIN occupied : occupied[x]}

RemoveStep == last'.op = "Remove" /\ opsLeft' = opsLeft - 1

LookupStep == last'.op = "Lookup" /\ opsLeft' = opsLeft

\* what a call does to the occupied slots
Accounting ==
    /\ (InsertStep /\ last'.res) =>
          /\ OccupiedSlots \subseteq OccupiedSlots'
          /\ Cardinality(OccupiedSlots') = Cardinality(OccupiedSlots) + 1
    /\ (InsertStep /\ ~last'.res) => OccupiedSlots' = OccupiedSlots
    /\ (RemoveStep /\ last'.res) =>
          /\ OccupiedSlots' \subseteq OccupiedSlots
          /\ Cardinality(OccupiedSlots') = Cardinality(OccupiedSlots) - 1
    /\ (RemoveStep /\ ~last'.res) => OccupiedSlots' = OccupiedSlots
    /\ LookupStep => OccupiedSlots' = OccupiedSlots

\* C21: an Insert that returns true occupies exactly one more slot, a Remove
\* that returns true frees exactly one, and a failed Insert, a failed Remove
\* and a Lookup leave the occupied slots as they are; so the number of
\* occupied slots is always the number of successful Inserts minus the
\* number of successful Removes, and at most nBuckets * nSlots.
C21_OccupancyAccounting ==
    [][/\ Accounting
       /\ Cardinality(OccupiedSlots') = netInserts'
       /\ Cardinality(OccupiedSlots') <= cfg.nBuckets * cfg.nSlots]_vars

\* two of three accepted fingerprints are left after a successful Remove
C21_Witness ==
    /\ status = "ok" /\ last.op = "Remove" /\ last.res
    /\ netInserts = 2 /\ Cardinality(OccupiedSlots) = 2
    /\ opsLeft = 0

(***************************************************************************)
(* Property of duplicate insertions (specification SpecDup).               *)
(***************************************************************************)
\* the first occupied slot of bucket i that holds f
FirstMatch(i, f) ==
    LowestSlot({n \in Slots : occupied[access(i, n).index] /\ slotBytes(buckets, i, n) = f})

\* the occupancy index Remove clears for fingerprint f and primary index i1
FirstMatchIndex(f, i1) ==
    IF has(occupied, buckets, i1, f) THEN access(i1, FirstMatch(i1, f)).index
    ELSE access(secondaryIndex(i1, f), FirstMatch(secondaryIndex(i1, f), f)).index

\* Remove(item) returned true: it cleared that slot and nothing else
ClearsFirstMatch(item) ==
    /\ buckets' = buckets
    /\ LookupNow(item)
    /\ occupied' = [occupied EXCEPT
                      ![FirstMatchIndex(FpOf(item), primaryIndex(DummyHash(item)))] = FALSE]

\* C22: after k Inserts of one item that all returned true and nothing
\* else, Remove(item) returns true exactly while fewer than k Removes
\* returned true, Lookup(item) returns true while fewer than k did, and a
\* Remove that returns true clears only the first matching occupied slot of
\* the first of the item's two buckets that holds a match.
C22_DuplicatesAreMultiset ==
    [][/\ RemoveStep => /\ last'.res <=> netInserts > 0
                        /\ last'.res => ClearsFirstMatch(last'.item)
       /\ (LookupStep /\ netInserts > 0) => last'.res]_vars

(***************************************************************************)
(* Property of the bucket indexes (specification SpecSteps).               *)
(***************************************************************************)
InRange(i) == i \in 0..(cfg.nBuckets - 1)

\* the slot (i, n) lies inside the occupancy array and the fingerprint buffer
SlotInside(i, n) ==
    /\ access(i, n).index \in DOMAIN occupied
    /\ ByteRange(<<i, n>>) \subseteq DOMAIN buckets

\* the indexes of a call of Insert that is under way
CallInRange(c) ==
    /\ InRange(c.i1) /\ InRange(c.i2) /\ InRange(c.cur)
    /\ c.pc \in {"mark", "copy"} => SlotInside(c.cur, c.n)
    /\ \A n \in Slots : SlotInside(c.cur, n)

\* the indexes Lookup(item) and Remove(item) pass to has and del
ProbesInRange(item) ==
    /\ InRange(primaryIndex(DummyHash(item)))
    /\ InRange(secondaryIndex(primaryIndex(DummyHash(item)), FpOf(item)))

\* the index the loop of Insert goes to from bucket i, whichever slot it evicts
ChainInRange(i) ==
    \A n \in Slots : InRange(secondaryIndex(i, slotBytes(buckets, i, n)))

\* C23: on a table with positive sizes every bucket index given to add, has,
\* del or evict (the primary index, the secondary index and every index of an
\* eviction chain) is one of 0 .. nBuckets - 1, and every slot reached with
\* it lies inside the occupancy array and the fingerprint buffer.
C23_IndicesInRange ==
    (status = "ok" /\ Positive) =>
        /\ \A p \in Threads : calls[p].pc # "idle" => CallInRange(calls[p])
        /\ \A item \in Items : ProbesInRange(item)
        /\ \A i \in 0..(cfg.nBuckets - 1) : ChainInRange(i)

\* an eviction chain has reached a bucket that is neither bucket of the item
C23_Witness ==
    /\ status = "ok" /\ guarded /\ cfg.nBuckets = 3
    /\ calls[1].pc = "mark" /\ calls[1].phase = "loop" /\ calls[1].tries >= 1
    /\ calls[1].cur # calls[1].i1 /\ calls[1].cur # calls[1].i2

====
